---- MODULE Spec2Model ----
(***************************************************************************)
(* Model of main.py: one run of the router-reboot automation.  The run is   *)
(* a single thread; its position is pc.  Every call to the remote browser   *)
(* service, the filesystem and the clock is an input of the environment,    *)
(* drawn from the outcomes that call can produce.                           *)
(***************************************************************************)
EXTENDS Integers, Sequences, FiniteSets, TLC

VARIABLES
    env,          \* os.environ as seen at lines 22-26
    pause,        \* DEBUG_PAUSE_SECONDS after int() (line 25)
    pc,           \* position of the run
    driver,       \* local `driver` of main(): "None" or "WebDriver"
    attempt,      \* loop variable of create_driver_with_retry
    i,            \* loop variable of the navigation loop (0-based, as enumerate)
    exc,          \* exception in flight in main(), NoExc when none
    handled,      \* exception bound to `exc` by the except clause (line 119)
    now,          \* wall clock, in ticks
    timestamp,    \* local `timestamp` of save_debug_artifacts (-1: not taken)
    files,        \* files present in ERROR_ARTIFACTS_DIR
    calls,        \* history: calls made to the outside, in order
    logs,         \* history: log records, in order
    exitStatus    \* process exit status, -1 while running

vars == <<env, pause, pc, driver, attempt, i, exc, handled, now, timestamp,
          files, calls, logs, exitStatus>>

----------------------------------------------------------------------------
(* Bounds of the model *)

\* The clock advances at most this many ticks during a run.
MaxClock == 2

\* Clock ticks per second: the clock is finer than the timestamp format.
TicksPerSecond == 2

----------------------------------------------------------------------------
(* Program constants *)

\* create_driver_with_retry(url, options, retries=10, delay=2)
retries == 10
delay == 2

\* steps (lines 103-109): the descriptions, in list order
steps == << "Advanced navbar item",
            "System settings menu",
            "Reboot button",
            "Reboot confirmation 1",
            "Reboot confirmation 2 (OK)" >>

----------------------------------------------------------------------------
(* Environment values *)

\* A required variable is unset (os.environ.get gives None), empty, or set.
RequiredValues == {"None", "", "set"}

\* Raw DEBUG_PAUSE_SECONDS: unset (default 0), or a string.
PauseRaw == {"None", "3", "-1", "abc"}

\* int(os.environ.get("DEBUG_PAUSE_SECONDS", 0)), line 25; ok is FALSE when
\* the string is no integer literal and int() raises ValueError.
ParsePause(raw) ==
    CASE raw = "None" -> [ok |-> TRUE,  value |-> 0]
      [] raw = "3"    -> [ok |-> TRUE,  value |-> 3]
      [] raw = "-1"   -> [ok |-> TRUE,  value |-> -1]
      [] OTHER        -> [ok |-> FALSE, value |-> 0]

\* Python truthiness of a value of os.environ.get: None and "" are falsy.
Truthy(v) == v \notin {"None", ""}

\* line 29 with ROUTER_PASSWORD left out of the list
all_required_without_password(e) == Truthy(e.SELENIUM_REMOTE_URL) /\ Truthy(e.ROUTER_ADMIN_URL)

\* all([SELENIUM_REMOTE_URL, ROUTER_ADMIN_URL, ROUTER_PASSWORD]), line 29
all_required(e) ==
    /\ Truthy(e.SELENIUM_REMOTE_URL)
    /\ Truthy(e.ROUTER_ADMIN_URL)
    /\ Truthy(e.ROUTER_PASSWORD)

----------------------------------------------------------------------------
(* Exceptions *)

NoExc == [kind |-> "none", code |-> 0, msg |-> "", origin |-> "none"]

\* An exception object: its class, the code of a SystemExit, the text the
\* program gave it ("" when the text comes from a library), and the call
\* that raised it.
Exc(kind, origin) == [kind |-> kind, code |-> 0, msg |-> "", origin |-> origin]

\* exit(n) raises SystemExit(n)
SystemExit(n, origin) == [kind |-> "SystemExit", code |-> n, msg |-> "", origin |-> origin]

\* RuntimeError(f"Failed at step: {desc}"), line 114
RuntimeError(desc) == [kind |-> "RuntimeError", code |-> 0, msg |-> desc, origin |-> "steps"]

\* selenium.common.exceptions: all derive from WebDriverException
IsWebDriverException(kind) ==
    kind \in {"WebDriverException", "TimeoutException", "InvalidSelectorException"}

\* subclasses of Exception; SystemExit derives from BaseException only
IsException(kind) ==
    \/ IsWebDriverException(kind)
    \/ kind \in {"RuntimeError", "OSError", "ValueError", "OtherException"}

\* an uncaught exception ends the process with status 1, SystemExit(n) with n
ExitStatusOf(e) ==
    IF e.kind = "none" THEN 0
    ELSE IF e.kind = "SystemExit" THEN e.code
    ELSE 1

----------------------------------------------------------------------------
(* Outcomes of the calls to the outside *)

\* webdriver.Remote(...): a session, a transport failure, or another error
RemoteOutcomes == {"ok", "WebDriverException", "OtherException"}

\* driver.get, element.clear, element.send_keys, driver.find_element
CommandOutcomes == {"ok", "WebDriverException"}

\* WebDriverWait(...).until / until_not
WaitOutcomes == {"ok", "TimeoutException", "WebDriverException"}

\* WebDriverWait(...).until(EC.element_to_be_clickable(locator))
ClickableOutcomes == {"ok", "TimeoutException", "InvalidSelectorException",
                      "WebDriverException"}

\* driver.execute_script, element.click inside wait_and_click
ElementOutcomes == {"ok", "TimeoutException", "WebDriverException"}

\* os.makedirs, open(path, "w")
FileOutcomes == {"ok", "OSError"}

\* driver.save_screenshot: True, False (the file could not be written), or raises
ScreenshotOutcomes == {"True", "False", "WebDriverException"}

\* driver.quit
QuitOutcomes == {"ok", "WebDriverException"}

----------------------------------------------------------------------------
(* Histories *)

\* A call to the outside: the operation, its numeric argument (attempt, step
\* or seconds; 0 when none) and what the outside answered.
Call(op, k, res) == [op |-> op, k |-> k, res |-> res]
\* A log record: level, format string, and its numeric or text argument
Log(level, msg, k) == [level |-> level, msg |-> msg, k |-> k, text |-> ""]
LogText(level, msg, text) == [level |-> level, msg |-> msg, k |-> 0, text |-> text]

\* datetime.now().strftime("%Y%m%d-%H%M%S"): the clock cut to whole seconds
strftime(t) == t \div TicksPerSecond

\* line 76 with the clock read again instead of using `timestamp`
source_path_fresh_stamp(ts) == [prefix |-> "error_src_", ts |-> strftime(now), ext |-> ".html"]

\* os.path.join(ERROR_ARTIFACTS_DIR, f"error_{timestamp}.png"), line 75
screenshot_path(ts) == [prefix |-> "error_", ts |-> ts, ext |-> ".png"]

\* os.path.join(ERROR_ARTIFACTS_DIR, f"error_src_{timestamp}.html"), line 76
source_path(ts) == [prefix |-> "error_src_", ts |-> ts, ext |-> ".html"]

----------------------------------------------------------------------------
(* Initial state: the process starts with some environment *)

Init ==
    /\ env \in [SELENIUM_REMOTE_URL : RequiredValues,
                ROUTER_ADMIN_URL : RequiredValues,
                ROUTER_PASSWORD : RequiredValues,
                DEBUG_PAUSE_SECONDS : PauseRaw]
    /\ pause = 0
    /\ pc = "module"
    /\ driver = "None"
    /\ attempt = 0
    /\ i = 0
    /\ exc = NoExc
    /\ handled = NoExc
    /\ now = 0
    /\ timestamp = -1
    /\ files = {}
    /\ calls = << >>
    /\ logs = << >>
    /\ exitStatus = -1

----------------------------------------------------------------------------
(* Module level, lines 22-31 *)

LoadConfig ==
    /\ pc = "module"
    /\ LET p == ParsePause(env.DEBUG_PAUSE_SECONDS) IN
       IF ~p.ok
       THEN \* line 25 raises ValueError: traceback, status 1
            /\ exc' = Exc("ValueError", "module")
            /\ exitStatus' = ExitStatusOf(exc')
            /\ pc' = "done"
            /\ UNCHANGED <<pause, logs>>
       ELSE IF ~all_required(env)
       THEN \* lines 30-31
            /\ logs' = Append(logs, Log("CRITICAL", "One or more required environment variables are not set", 0))
            /\ exc' = SystemExit(1, "module")
            /\ exitStatus' = ExitStatusOf(exc')
            /\ pc' = "done"
            /\ pause' = p.value
       ELSE /\ pause' = p.value
            /\ pc' = "create_driver"
            /\ UNCHANGED <<exc, exitStatus, logs>>
    /\ UNCHANGED <<env, driver, attempt, i, handled, now, timestamp, files, calls>>

----------------------------------------------------------------------------
(* Exceptions inside main() *)

\* line 119 as a bare `except:`, which also takes SystemExit
except_clause_catches_all(kind) == kind # "none"

\* `except Exception as exc`, line 119
except_clause(kind) == IsException(kind)

\* An exception raised inside the try block (lines 89-117): the except clause
\* takes it if it matches, else it travels through the finally block.
RaiseInTry(e) ==
    /\ exc' = e
    /\ pc' = IF except_clause(e.kind) THEN "except" ELSE "finally"

----------------------------------------------------------------------------
(* create_driver_with_retry, lines 60-68, called at line 89 *)

\* line 64 as `except Exception`
retry_clause_any_exception(kind) == IsException(kind)

\* `except WebDriverException as e`, line 64
retry_clause(kind) == IsWebDriverException(kind)

\* line 61 as `while True`
range_unbounded(a) == TRUE

\* line 61 as range(retries + 1)
range_one_more(a) == a <= retries

\* `for attempt in range(retries)`, line 61: the loop has another iteration
in_range(a) == a < retries

\* One iteration of the loop: lines 62-66.
CreateDriverAttempt ==
    /\ pc = "create_driver"
    /\ in_range(attempt)
    /\ \E o \in RemoteOutcomes :
        IF o = "ok"
        THEN \* line 63 returns the session
             /\ calls' = Append(calls, Call("Remote", attempt + 1, o))
             /\ driver' = "WebDriver"
             /\ pc' = "get"
             /\ UNCHANGED <<attempt, exc, logs>>
        ELSE IF retry_clause(o)
        THEN \* lines 65-66
             /\ calls' = calls \o << Call("Remote", attempt + 1, o), Call("sleep_retry", delay, "ok") >>
             /\ logs' = Append(logs, Log("WARNING", "Selenium not ready, attempt", attempt + 1))
             /\ attempt' = attempt + 1
             /\ UNCHANGED <<driver, pc, exc>>
        ELSE \* not caught at line 64: out of the function, into main's try
             /\ calls' = Append(calls, Call("Remote", attempt + 1, o))
             /\ RaiseInTry(Exc(o, "create_driver"))
             /\ UNCHANGED <<driver, attempt, logs>>
    /\ UNCHANGED <<env, pause, i, handled, now, timestamp, files, exitStatus>>

\* The loop ran out: lines 67-68.
CreateDriverExhausted ==
    /\ pc = "create_driver"
    /\ ~in_range(attempt)
    /\ logs' = Append(logs, Log("CRITICAL", "Could not connect to Selenium after retries. Exiting.", retries))
    /\ RaiseInTry(SystemExit(2, "create_driver"))
    /\ UNCHANGED <<env, pause, driver, attempt, i, handled, now, timestamp, files,
                   calls, exitStatus>>

----------------------------------------------------------------------------
(* Login phase, lines 90-100 *)

\* lines 90-91
OpenAdminPage ==
    /\ pc = "get"
    /\ logs' = Append(logs, Log("INFO", "Opening router admin page", 0))
    /\ \E o \in CommandOutcomes :
        /\ calls' = Append(calls, Call("get", 0, o))
        /\ IF o = "ok"
           THEN pc' = "wait_password" /\ UNCHANGED exc
           ELSE RaiseInTry(Exc(o, "get"))
    /\ UNCHANGED <<env, pause, driver, attempt, i, handled, now, timestamp, files,
                   exitStatus>>

\* line 94
WaitPasswordVisible ==
    /\ pc = "wait_password"
    /\ \E o \in WaitOutcomes :
        /\ calls' = Append(calls, Call("wait_visible", 0, o))
        /\ IF o = "ok"
           THEN pc' = "fill_password" /\ UNCHANGED exc
           ELSE RaiseInTry(Exc(o, "wait_visible"))
    /\ UNCHANGED <<env, pause, driver, attempt, i, handled, now, timestamp, files,
                   logs, exitStatus>>

\* lines 95-96
FillPassword ==
    /\ pc = "fill_password"
    /\ \E c \in CommandOutcomes, k \in CommandOutcomes :
        IF c # "ok"
        THEN /\ calls' = Append(calls, Call("clear", 0, c))
             /\ RaiseInTry(Exc(c, "clear"))
        ELSE /\ calls' = calls \o << Call("clear", 0, c), Call("send_keys", 0, k) >>
             /\ IF k = "ok"
                THEN pc' = "click_login" /\ UNCHANGED exc
                ELSE RaiseInTry(Exc(k, "send_keys"))
    /\ UNCHANGED <<env, pause, driver, attempt, i, handled, now, timestamp, files,
                   logs, exitStatus>>

\* line 97
ClickLogin ==
    /\ pc = "click_login"
    /\ \E f \in CommandOutcomes, c \in CommandOutcomes :
        IF f # "ok"
        THEN /\ calls' = Append(calls, Call("find_login", 0, f))
             /\ RaiseInTry(Exc(f, "find_login"))
        ELSE /\ calls' = calls \o << Call("find_login", 0, f), Call("click_login", 0, c) >>
             /\ IF c = "ok"
                THEN pc' = "wait_login" /\ UNCHANGED exc
                ELSE RaiseInTry(Exc(c, "click_login"))
    /\ UNCHANGED <<env, pause, driver, attempt, i, handled, now, timestamp, files,
                   logs, exitStatus>>

\* lines 98-99 with the timeout of the wait swallowed
WaitPasswordInvisible_ignores_timeout ==
    /\ pc = "wait_login"
    /\ \E o \in WaitOutcomes :
        /\ calls' = Append(calls, Call("wait_invisible", 0, o))
        /\ IF o \in {"ok", "TimeoutException"}
           THEN /\ logs' = Append(logs, Log("INFO", "Login successful.", 0))
                /\ pc' = "overlay_login"
                /\ UNCHANGED exc
           ELSE /\ RaiseInTry(Exc(o, "wait_invisible"))
                /\ UNCHANGED logs
    /\ UNCHANGED <<env, pause, driver, attempt, i, handled, now, timestamp, files,
                   exitStatus>>

\* lines 98-99 with the login phase started again when the wait times out
WaitPasswordInvisible_retries_login ==
    /\ pc = "wait_login"
    /\ \E o \in WaitOutcomes :
        /\ calls' = Append(calls, Call("wait_invisible", 0, o))
        /\ IF o = "ok"
           THEN /\ logs' = Append(logs, Log("INFO", "Login successful.", 0))
                /\ pc' = "overlay_login"
                /\ UNCHANGED exc
           ELSE IF o = "TimeoutException"
           THEN /\ pc' = "get"
                /\ UNCHANGED <<exc, logs>>
           ELSE /\ RaiseInTry(Exc(o, "wait_invisible"))
                /\ UNCHANGED logs
    /\ UNCHANGED <<env, pause, driver, attempt, i, handled, now, timestamp, files,
                   exitStatus>>

\* lines 98-99
WaitPasswordInvisible ==
    /\ pc = "wait_login"
    /\ \E o \in WaitOutcomes :
        /\ calls' = Append(calls, Call("wait_invisible", 0, o))
        /\ IF o = "ok"
           THEN /\ logs' = Append(logs, Log("INFO", "Login successful.", 0))
                /\ pc' = "overlay_login"
                /\ UNCHANGED exc
           ELSE /\ RaiseInTry(Exc(o, "wait_invisible"))
                /\ UNCHANGED logs
    /\ UNCHANGED <<env, pause, driver, attempt, i, handled, now, timestamp, files,
                   exitStatus>>

----------------------------------------------------------------------------
(* wait_for_overlay_to_disappear, lines 41-45 *)

\* lines 42-45 without the except clause
overlay_clause_none(kind) == FALSE

\* `except TimeoutException`, line 44
overlay_clause(kind) == kind = "TimeoutException"

\* The function, called where the run continues at `next` when it returns.
wait_for_overlay_to_disappear(next) ==
    \E o \in WaitOutcomes :
        /\ calls' = Append(calls, Call("wait_overlay", 0, o))
        /\ IF o = "ok"
           THEN pc' = next /\ UNCHANGED <<exc, logs>>
           ELSE IF overlay_clause(o)
           THEN /\ logs' = Append(logs, Log("WARNING", "Overlay may still be visible, proceeding...", 8))
                /\ pc' = next
                /\ UNCHANGED exc
           ELSE /\ RaiseInTry(Exc(o, "wait_overlay"))
                /\ UNCHANGED logs

\* line 100
OverlayAfterLogin ==
    /\ pc = "overlay_login"
    /\ wait_for_overlay_to_disappear("steps")
    /\ UNCHANGED <<env, pause, driver, attempt, i, handled, now, timestamp, files,
                   exitStatus>>

----------------------------------------------------------------------------
(* wait_and_click, lines 47-58 *)

\* line 56 with TimeoutException left out of the tuple
click_clause_selector_only(kind) == kind = "InvalidSelectorException"

\* line 56 as `except WebDriverException`
click_clause_any_driver_error(kind) == IsWebDriverException(kind)

\* `except (TimeoutException, InvalidSelectorException)`, line 56
click_clause(kind) == kind \in {"TimeoutException", "InvalidSelectorException"}

\* The first call of lines 50, 51, 53 that does not succeed ("ok" if none):
\* w is the outcome of the wait, s of execute_script, c of element.click.
FirstFailure(w, s, c) == IF w # "ok" THEN w ELSE IF s # "ok" THEN s ELSE c

\* What wait_and_click gives its caller: "True", "False", or the class of the
\* exception it lets through.
wait_and_click(w, s, c) ==
    LET f == FirstFailure(w, s, c) IN
    IF f = "ok" THEN "True"
    ELSE IF click_clause(f) THEN "False"
    ELSE f

\* The calls wait_and_click makes for step k, lines 50-53 (the settle pause
\* of line 52 is recorded with the step, its length is half a second).
wait_and_click_calls(k, w, s, c) ==
    << Call("wait_clickable", k, w) >>
    \o (IF w = "ok" THEN << Call("execute_script", k, s) >> ELSE << >>)
    \o (IF w = "ok" /\ s = "ok" THEN << Call("sleep_settle", k, "ok"), Call("click", k, c) >> ELSE << >>)

\* The records wait_and_click logs for the step described by desc.
wait_and_click_logs(desc, w, s, c) ==
    << LogText("INFO", "Waiting for", desc) >>
    \o (IF wait_and_click(w, s, c) = "True"
        THEN << LogText("INFO", "Successfully clicked", desc) >>
        ELSE IF wait_and_click(w, s, c) = "False"
        THEN << LogText("ERROR", "Error finding or clicking", desc) >>
        ELSE << >>)

----------------------------------------------------------------------------
(* Navigation loop, lines 111-117 *)

\* line 111 with desc stuck at the first tuple
step_desc_first(idx) == steps[1]

\* desc of the idx-th tuple of enumerate(steps)
step_desc(idx) == steps[idx + 1]

\* line 113 with the result of wait_and_click ignored
step_never_fails(result) == FALSE

\* `if not wait_and_click(...)`, line 113
step_failed(result) == result = "False"

\* line 115 without the `if i == 0` guard
overlay_after_every(idx) == TRUE

\* `if i == 0`, line 115
overlay_after(idx) == idx = 0

\* `if i > 0`, line 112
pause_before(idx) == idx > 0

\* One iteration of the loop up to the overlay wait: lines 112-114.
NavStep ==
    /\ pc = "steps"
    /\ i < Len(steps)
    /\ \E w \in ClickableOutcomes, s \in ElementOutcomes, c \in ElementOutcomes :
        LET r == wait_and_click(w, s, c) IN
        /\ calls' = calls
                    \o (IF pause_before(i) THEN << Call("sleep_step", 1, "ok") >> ELSE << >>)
                    \o wait_and_click_calls(i + 1, w, s, c)
        /\ logs' = logs \o wait_and_click_logs(step_desc(i), w, s, c)
        /\ IF r \notin {"True", "False"}
           THEN RaiseInTry(Exc(r, "wait_and_click")) /\ UNCHANGED i
           ELSE IF step_failed(r)
           THEN RaiseInTry(RuntimeError(step_desc(i))) /\ UNCHANGED i
           ELSE IF overlay_after(i)
           THEN pc' = "overlay_step" /\ UNCHANGED <<i, exc>>
           ELSE i' = i + 1 /\ UNCHANGED <<pc, exc>>
    /\ UNCHANGED <<env, pause, driver, attempt, handled, now, timestamp, files,
                   exitStatus>>

\* line 115, then the next iteration
OverlayAfterStep ==
    /\ pc = "overlay_step"
    /\ wait_for_overlay_to_disappear("steps")
    /\ i' = IF pc' = "steps" THEN i + 1 ELSE i
    /\ UNCHANGED <<env, pause, driver, attempt, handled, now, timestamp, files,
                   exitStatus>>

\* The loop is over: line 117, then the finally block.
NavDone ==
    /\ pc = "steps"
    /\ i = Len(steps)
    /\ logs' = Append(logs, Log("INFO", "Reboot command sent successfully!", 0))
    /\ pc' = "finally"
    /\ UNCHANGED <<env, pause, driver, attempt, i, exc, handled, now, timestamp,
                   files, calls, exitStatus>>

----------------------------------------------------------------------------
(* except block of main(), lines 119-126 *)

\* lines 121 and 129 without the test of `driver`
driver_always_truthy(d) == TRUE

\* `if driver:` (lines 121, 129): None is falsy, a WebDriver object truthy
driver_truthy(d) == d # "None"

\* line 126 with the exit status of the connection error
handler_exit_as_connection_error(origin) == SystemExit(2, origin)

\* exit(1), line 126
handler_exit(origin) == SystemExit(1, origin)

\* lines 119-121, and line 126 when there is no session
ExceptHandler ==
    /\ pc = "except"
    /\ handled' = exc
    /\ logs' = Append(logs, LogText("ERROR", "Automation failed:", exc.msg))
    /\ IF driver_truthy(driver)
       THEN exc' = NoExc /\ pc' = "save_debug"
       ELSE exc' = handler_exit("handler") /\ pc' = "finally"
    /\ UNCHANGED <<env, pause, driver, attempt, i, now, timestamp, files, calls,
                   exitStatus>>

----------------------------------------------------------------------------
(* save_debug_artifacts, lines 70-83, called at line 122 *)

\* lines 73-83 without the except clause
artifacts_clause_none(kind) == FALSE

\* `except Exception as e`, line 82
artifacts_clause(kind) == IsException(kind)

\* An exception raised inside the try block of lines 73-81: caught and logged
\* at lines 82-83, else out of the function and out of main's except block.
RaiseInArtifacts(e) ==
    IF artifacts_clause(e.kind)
    THEN /\ logs' = Append(logs, Log("ERROR", "Failed to save debug artifacts", 0))
         /\ pc' = "pause"
         /\ UNCHANGED exc
    ELSE /\ exc' = e
         /\ pc' = "finally"
         /\ UNCHANGED logs

\* lines 71-72
SaveDebugBegin ==
    /\ pc = "save_debug"
    /\ timestamp' = strftime(now)
    /\ logs' = Append(logs, Log("INFO", "Saving debug artifacts", 0))
    /\ pc' = "makedirs"
    /\ UNCHANGED <<env, pause, driver, attempt, i, exc, handled, now, files, calls,
                   exitStatus>>

\* lines 74-76
Makedirs ==
    /\ pc = "makedirs"
    /\ \E o \in FileOutcomes :
        /\ calls' = Append(calls, Call("makedirs", 0, o))
        /\ IF o = "ok"
           THEN pc' = "screenshot" /\ UNCHANGED <<exc, logs>>
           ELSE RaiseInArtifacts(Exc(o, "makedirs"))
    /\ UNCHANGED <<env, pause, driver, attempt, i, handled, now, timestamp, files,
                   exitStatus>>

\* lines 77-78; the result of save_screenshot is not looked at
SaveScreenshot ==
    /\ pc = "screenshot"
    /\ \E o \in ScreenshotOutcomes :
        /\ calls' = Append(calls, Call("save_screenshot", 0, o))
        /\ IF o \in {"True", "False"}
           THEN /\ files' = IF o = "True"
                            THEN files \cup {[path |-> screenshot_path(timestamp), content |-> "image"]}
                            ELSE files
                /\ logs' = Append(logs, Log("INFO", "Saved screenshot", 0))
                /\ pc' = "source"
                /\ UNCHANGED exc
           ELSE /\ RaiseInArtifacts(Exc(o, "save_screenshot"))
                /\ UNCHANGED files
    /\ UNCHANGED <<env, pause, driver, attempt, i, handled, now, timestamp, exitStatus>>

\* lines 79-81: open creates the file, then page_source is read and written
WriteSource ==
    /\ pc = "source"
    /\ \E f \in FileOutcomes, p \in CommandOutcomes :
        IF f # "ok"
        THEN /\ calls' = Append(calls, Call("open", 0, f))
             /\ RaiseInArtifacts(Exc(f, "open"))
             /\ UNCHANGED files
        ELSE /\ calls' = calls \o << Call("open", 0, f), Call("page_source", 0, p) >>
             /\ IF p = "ok"
                THEN /\ files' = files \cup {[path |-> source_path(timestamp), content |-> "markup"]}
                     /\ logs' = Append(logs, Log("INFO", "Saved page source", 0))
                     /\ pc' = "pause"
                     /\ UNCHANGED exc
                ELSE /\ files' = files \cup {[path |-> source_path(timestamp), content |-> ""]}
                     /\ RaiseInArtifacts(Exc(p, "page_source"))
    /\ UNCHANGED <<env, pause, driver, attempt, i, handled, now, timestamp, exitStatus>>

\* line 123 as `if DEBUG_PAUSE_SECONDS:`
should_pause_if_truthy(seconds) == seconds # 0

\* `if DEBUG_PAUSE_SECONDS > 0`, line 123
should_pause(seconds) == seconds > 0

\* lines 123-126
DebugPause ==
    /\ pc = "pause"
    /\ IF should_pause(pause)
       THEN /\ logs' = Append(logs, Log("INFO", "Pausing for manual inspection...", pause))
            /\ calls' = Append(calls, Call("sleep_pause", pause, "ok"))
       ELSE UNCHANGED <<logs, calls>>
    /\ exc' = handler_exit("handler")
    /\ pc' = "finally"
    /\ UNCHANGED <<env, pause, driver, attempt, i, handled, now, timestamp, files,
                   exitStatus>>

----------------------------------------------------------------------------
(* finally block of main(), lines 128-131, and the end of the process *)

\* line 129 without the `if driver` guard
quit_always(d) == TRUE

\* `if driver:`, line 129
should_quit(d) == driver_truthy(d)

Finally ==
    /\ pc = "finally"
    /\ IF should_quit(driver)
       THEN \E q \in QuitOutcomes :
            /\ calls' = Append(calls, Call("quit", 0, q))
            /\ IF q = "ok"
               THEN /\ logs' = Append(logs, Log("INFO", "Automation finished.", 0))
                    /\ UNCHANGED exc
               ELSE \* the exception of quit replaces the one in flight
                    /\ exc' = Exc(q, "quit")
                    /\ UNCHANGED logs
       ELSE /\ logs' = Append(logs, Log("INFO", "Automation finished.", 0))
            /\ UNCHANGED <<calls, exc>>
    /\ exitStatus' = ExitStatusOf(exc')
    /\ pc' = "done"
    /\ UNCHANGED <<env, pause, driver, attempt, i, handled, now, timestamp, files>>

----------------------------------------------------------------------------
(* The clock *)

\* Time passes.  The program reads the clock at line 71 only, so its advance
\* is followed from the except block on.
Tick ==
    /\ pc \in {"except", "save_debug", "makedirs", "screenshot", "source"}
    /\ now < MaxClock
    /\ now' = now + 1
    /\ UNCHANGED <<env, pause, pc, driver, attempt, i, exc, handled, timestamp,
                   files, calls, logs, exitStatus>>

----------------------------------------------------------------------------

\* a step of the program
ProgramStep ==
    \/ LoadConfig
    \/ CreateDriverAttempt
    \/ CreateDriverExhausted
    \/ OpenAdminPage
    \/ WaitPasswordVisible
    \/ FillPassword
    \/ ClickLogin
    \/ WaitPasswordInvisible
    \/ OverlayAfterLogin
    \/ NavStep
    \/ OverlayAfterStep
    \/ NavDone
    \/ ExceptHandler
    \/ SaveDebugBegin
    \/ Makedirs
    \/ SaveScreenshot
    \/ WriteSource
    \/ DebugPause
    \/ Finally

Next ==
    \/ ProgramStep
    \/ Tick

Spec == Init /\ [][Next]_vars

\* The interpreter runs the one thread of the script until the process ends:
\* a step of the program that can be taken is eventually taken.
LiveSpec == Spec /\ WF_vars(ProgramStep)

----------------------------------------------------------------------------
(* Reading the histories *)

Done == pc = "done"

\* positions of the calls of operation op
Positions(op) == {j \in DOMAIN calls : calls[j].op = op}

\* number of calls of operation op
Count(op) == Cardinality(Positions(op))

\* operation op was called and the outside answered res
Answered(op, res) == \E j \in DOMAIN calls : calls[j].op = op /\ calls[j].res = res

\* a record with this format string was logged
Logged(msg) == \E j \in DOMAIN logs : logs[j].msg = msg

\* a record with this format string and text argument was logged
LoggedText(msg, text) == \E j \in DOMAIN logs : logs[j].msg = msg /\ logs[j].text = text

\* session-creation attempts that ended in a transport failure
TransportFailures ==
    Cardinality({j \in Positions("Remote") : calls[j].res = "WebDriverException"})

\* a session was created
SessionCreated == Answered("Remote", "ok")

\* navigation step k (1..5) was attempted
Attempted(k) == \E j \in Positions("wait_clickable") : calls[j].k = k

\* the diagnostics capture was entered
CaptureStarted == Logged("Saving debug artifacts")

----------------------------------------------------------------------------
(* C1 *)

AnyRequiredMissing ==
    \E v \in {"SELENIUM_REMOTE_URL", "ROUTER_ADMIN_URL", "ROUTER_PASSWORD"} :
        env[v] \in {"None", ""}

\* C1: if any of the three required configuration values is absent or empty,
\* the run never leaves module level, makes no call to the outside at all (so
\* no connection attempt and no network call), and ends with exit status 1.
C1_ConfigErrorBeforeNetwork ==
    AnyRequiredMissing =>
        /\ pc \in {"module", "done"}
        /\ calls = << >>
        /\ driver = "None"
        /\ (Done => exitStatus = 1)

\* a run ended by the validation of line 29 with the password empty
C1_Witness ==
    /\ Done
    /\ env.ROUTER_PASSWORD = ""
    /\ env.SELENIUM_REMOTE_URL = "set"
    /\ env.ROUTER_ADMIN_URL = "set"
    /\ Logged("One or more required environment variables are not set")
    /\ exitStatus = 1
    /\ calls = << >>

----------------------------------------------------------------------------
(* C2 *)

\* C2: when a session is created after N transport failures, N is between 0
\* and 9, exactly N+1 connection attempts were made, and the run goes on to
\* load the admin page (the login phase) as its next call; no run makes more
\* than 10 connection attempts.
C2_AttemptsBeforeLogin ==
    LET made == Positions("Remote")
        failures == TransportFailures
    IN  /\ Cardinality(made) <= 10
        /\ \A j \in made :
             calls[j].res = "ok" =>
                /\ failures \in 0..9
                /\ Cardinality(made) = failures + 1
                /\ calls[j].k = failures + 1
                /\ IF j = Len(calls) THEN pc = "get" ELSE calls[j + 1].op = "get"

\* nine transport failures, then a session on the tenth attempt, then the page load
C2_Witness ==
    /\ TransportFailures = 9
    /\ SessionCreated
    /\ Count("Remote") = 10
    /\ Count("get") = 1

----------------------------------------------------------------------------
(* C3 *)

\* C3: once ten connection attempts have failed with a transport failure the
\* run makes no further call except the delays of the retry loop: no page
\* load, no login, no navigation step, no diagnostics capture, no
\* session-close call; and it ends with exit status 2.
C3_RetriesExhausted ==
    TransportFailures = 10 =>
        /\ \A j \in DOMAIN calls : calls[j].op \in {"Remote", "sleep_retry"}
        /\ ~CaptureStarted
        /\ files = {}
        /\ driver = "None"
        /\ pc \in {"create_driver", "finally", "done"}
        /\ (Done => exitStatus = 2)

\* a run that failed ten times and has ended
C3_Witness ==
    /\ Done
    /\ TransportFailures = 10
    /\ exitStatus = 2
    /\ Logged("Could not connect to Selenium after retries. Exiting.")

----------------------------------------------------------------------------
(* C4 *)

\* C4: a run that has ended called the session-close operation exactly once
\* if a session was created and not at all otherwise, whatever the exit path
\* (success, login or navigation failure, failure during diagnostics
\* capture); and the operation is never called twice or without a session.
C4_QuitExactlyOnce ==
    /\ Count("quit") <= 1
    /\ Count("quit") = 1 => SessionCreated
    /\ Done => (Count("quit") = 1 <=> SessionCreated)

\* a run that failed in navigation, failed again while capturing diagnostics,
\* and closed the session
C4_Witness ==
    /\ Done
    /\ SessionCreated
    /\ Answered("wait_clickable", "TimeoutException")
    /\ Logged("Failed to save debug artifacts")
    /\ Count("quit") = 1

----------------------------------------------------------------------------
(* C5 *)

\* the guarded click of step k succeeded: all three of its calls did
StepClicked(k) == \E j \in Positions("click") : calls[j].k = k /\ calls[j].res = "ok"

\* a call of the guarded click of step k did not succeed
StepFailed(k) ==
    \E j \in DOMAIN calls :
        /\ calls[j].op \in {"wait_clickable", "execute_script", "click"}
        /\ calls[j].k = k
        /\ calls[j].res # "ok"

\* C5: the navigation steps are attempted in the order 1, 2, 3, 4, 5, each at
\* most once, and a failure at step k (1..4) means no step after k is ever
\* attempted.
C5_NavigationOrder ==
    LET waits == Positions("wait_clickable")
        attempted == {calls[j].k : j \in waits}
    IN  /\ \A j \in waits : calls[j].k = Cardinality({h \in waits : h <= j})
        /\ Cardinality(waits) <= 5
        /\ \A k \in attempted :
             /\ k \in 1..5
             /\ StepFailed(k) => \A m \in (k + 1)..5 : m \notin attempted
             /\ k > 1 => StepClicked(k - 1)

\* a run that clicked steps 1 and 2, failed at step 3 and has ended
C5_Witness ==
    /\ Done
    /\ StepClicked(1)
    /\ StepClicked(2)
    /\ StepFailed(3)
    /\ ~Attempted(4)

----------------------------------------------------------------------------
(* C6 *)

\* the wait for the password field to become invisible (line 98) timed out
LoginTimedOut == Answered("wait_invisible", "TimeoutException")

\* C6: if the wait for the password field to become invisible times out, the
\* login is never reported successful, no navigation step and no overlay wait
\* is ever attempted, and the run ends with exit status 1.
C6_LoginTimeoutStopsRun ==
    LoginTimedOut =>
        /\ Answered("click_login", "ok")
        /\ ~Logged("Login successful.")
        /\ \A k \in 1..5 : ~Attempted(k)
        /\ Count("wait_overlay") = 0
        /\ pc \notin {"overlay_login", "steps", "overlay_step"}
        /\ (Done => exitStatus = 1)

\* a run whose login wait timed out and that has ended
C6_Witness ==
    /\ Done
    /\ LoginTimedOut
    /\ handled.kind = "TimeoutException"
    /\ handled.origin = "wait_invisible"
    /\ exitStatus = 1

----------------------------------------------------------------------------
(* C7 *)

\* the except block of main() took a failure while a session existed
FailureWithSession == SessionCreated /\ handled.kind # "none"

Screenshots == {f \in files : f.path.ext = ".png"}
Markups == {f \in files : f.path.ext = ".html"}

\* every step of the diagnostics capture succeeded
CaptureSucceeded ==
    /\ Answered("makedirs", "ok")
    /\ Answered("save_screenshot", "True")
    /\ Answered("open", "ok")
    /\ Answered("page_source", "ok")

\* C7 as stated: whenever a failure occurs after a session exists, exactly
\* one screenshot file and exactly one markup file are written in that run,
\* and both carry the same timestamp suffix.
C7_Original ==
    (Done /\ FailureWithSession) =>
        /\ Cardinality(Screenshots) = 1
        /\ Cardinality(Markups) = 1
        /\ \A f \in files, g \in files : f.path.ts = g.path.ts

\* C7, amended: a failure taken by the top-level handler while a session
\* exists starts the diagnostics capture exactly once; the capture writes at
\* most one screenshot file and at most one markup file, all named with the
\* one timestamp taken when the capture started; and when no step of the
\* capture fails, exactly one screenshot and exactly one markup file have
\* been written when the run ends.  Nothing is written without such a failure.
C7_ArtifactsAtMostOnePair ==
    /\ Cardinality(Screenshots) <= 1
    /\ Cardinality(Markups) <= 1
    /\ \A f \in files : f.path.ts = timestamp
    /\ \A f \in files, g \in files : f.path.ts = g.path.ts
    /\ files # {} => FailureWithSession
    /\ Cardinality({j \in DOMAIN logs : logs[j].msg = "Saving debug artifacts"}) <= 1
    /\ (Done /\ FailureWithSession) => CaptureStarted
    /\ (Done /\ FailureWithSession /\ CaptureSucceeded) =>
          /\ Screenshots = {[path |-> [prefix |-> "error_", ts |-> timestamp, ext |-> ".png"],
                             content |-> "image"]}
          /\ Markups = {[path |-> [prefix |-> "error_src_", ts |-> timestamp, ext |-> ".html"],
                         content |-> "markup"]}

\* a failed run that wrote both files while the clock moved on to the next
\* second during the capture
C7_Witness ==
    /\ Done
    /\ FailureWithSession
    /\ CaptureSucceeded
    /\ Cardinality(Screenshots) = 1
    /\ Cardinality(Markups) = 1
    /\ strftime(now) # timestamp

----------------------------------------------------------------------------
(* C8 *)

CaptureOrigins == {"makedirs", "save_screenshot", "open", "page_source"}

\* a step of the diagnostics capture failed
CaptureFailed ==
    \/ Answered("makedirs", "OSError")
    \/ Answered("save_screenshot", "WebDriverException")
    \/ Answered("save_screenshot", "False")
    \/ Answered("open", "OSError")
    \/ Answered("page_source", "WebDriverException")

\* C8: a failure while creating the artifacts directory or writing either
\* diagnostic file never becomes the exception in flight: the run goes on to
\* the pause (taken when configured positive) and the handler's exit(1), ends
\* with exit status 1, and has closed the session exactly once.
C8_CaptureFailureNotEscalated ==
    CaptureFailed =>
        /\ exc.origin \notin CaptureOrigins
        /\ pc \in {"source", "pause", "finally", "done"}
        /\ pc \in {"finally", "done"} =>
              /\ exc.origin \in {"handler", "quit"}
              /\ Count("sleep_pause") = (IF pause > 0 THEN 1 ELSE 0)
        /\ Done =>
              /\ exitStatus = 1
              /\ Count("quit") = 1

\* a run whose artifacts directory could not be created and that has ended
C8_Witness ==
    /\ Done
    /\ Answered("makedirs", "OSError")
    /\ Logged("Failed to save debug artifacts")
    /\ exitStatus = 1
    /\ Count("quit") = 1
    /\ Answered("quit", "ok")

----------------------------------------------------------------------------
(* C9 *)

\* the scenario of C9: a session on the first attempt, the password field
\* appears and becomes invisible after submit, all five steps are clicked
HappyScenario ==
    /\ Len(calls) >= 1
    /\ calls[1] = Call("Remote", 1, "ok")
    /\ Answered("wait_visible", "ok")
    /\ Answered("click_login", "ok")
    /\ Answered("wait_invisible", "ok")
    /\ \A k \in 1..5 : StepClicked(k)

\* C9: in the scenario, the run logs "Reboot command sent successfully!",
\* captures no diagnostics and ends with exit status 0.
C9_HappyPathExitsZero ==
    (Done /\ HappyScenario) =>
        /\ Logged("Reboot command sent successfully!")
        /\ ~CaptureStarted
        /\ exitStatus = 0

----------------------------------------------------------------------------
(* C10 *)

\* the guarded click of step k reported failure to the loop: one of its calls
\* ended in an exception of line 56
StepRefused(k) ==
    \E j \in DOMAIN calls :
        /\ calls[j].op \in {"wait_clickable", "execute_script", "click"}
        /\ calls[j].k = k
        /\ calls[j].res \in {"TimeoutException", "InvalidSelectorException"}

\* the descriptions of the five steps, as the claim names them
Descriptions == << "Advanced navbar item", "System settings menu", "Reboot button",
                   "Reboot confirmation 1", "Reboot confirmation 2 (OK)" >>

----------------------------------------------------------------------------
(* C11 *)

\* the calls of the login and navigation phases
PhaseOps == {"get", "wait_visible", "clear", "send_keys", "find_login", "click_login",
             "wait_invisible", "wait_overlay", "wait_clickable", "execute_script",
             "click"}

\* a call of the login or navigation phase failed, other than an overlay wait
\* that timed out
PhaseFailure ==
    \E j \in DOMAIN calls :
        /\ calls[j].op \in PhaseOps
        /\ calls[j].res # "ok"
        /\ ~(calls[j].op = "wait_overlay" /\ calls[j].res = "TimeoutException")

\* C11: a run that has ended has status 0, 1 or 2; it has status 1 after any
\* failure of the login or navigation phase, whichever call failed; status 2
\* only after ten transport failures of the connection; status 0 only when
\* the login succeeded and all five navigation steps were clicked.
C11_ExitStatusByOutcome ==
    Done =>
        /\ exitStatus \in {0, 1, 2}
        /\ PhaseFailure => exitStatus = 1
        /\ exitStatus = 2 => (TransportFailures = 10 /\ ~SessionCreated)
        /\ exitStatus = 0 =>
              /\ Answered("wait_invisible", "ok")
              /\ Logged("Login successful.")
              /\ \A k \in 1..5 : StepClicked(k)
              /\ ~PhaseFailure

\* a run that got its session on the second attempt, failed at the fourth
\* step and ended with status 1
C11_Witness ==
    /\ Done
    /\ TransportFailures = 1
    /\ StepFailed(4)
    /\ exitStatus = 1

----------------------------------------------------------------------------
(* C12 *)

\* C12 as stated: an overlay wait is executed only after the first navigation
\* step has been clicked; none precedes the first step, none follows steps
\* 2 to 5.
C12_Original ==
    \A j \in Positions("wait_overlay") :
        /\ \E h \in 1..(j - 1) : calls[h] = Call("click", 1, "ok")
        /\ \A h \in 1..(j - 1) : calls[h].op = "wait_clickable" => calls[h].k = 1

\* C12, amended: a run executes at most two overlay waits: one right after
\* the login was confirmed (line 100), before the first navigation step, and
\* one right after the first navigation step was clicked (line 115); no
\* overlay wait follows steps 2 to 5.  The first step is attempted only after
\* the first wait, the second step only after the second.
C12_OverlayWaitPlaces ==
    LET waits == Positions("wait_overlay")
        attempted == {calls[j].k : j \in Positions("wait_clickable")}
    IN  /\ Cardinality(waits) <= 2
        /\ \A j \in waits :
             /\ j > 1
             /\ \/ calls[j - 1] = Call("wait_invisible", 0, "ok")
                \/ calls[j - 1] = Call("click", 1, "ok")
             /\ \A h \in 1..(j - 1) : calls[h].op = "wait_clickable" => calls[h].k = 1
        /\ 1 \in attempted => Cardinality(waits) >= 1
        /\ 2 \in attempted => Cardinality(waits) = 2

\* a run that clicked all five steps, with its two overlay waits
C12_Witness ==
    /\ Done
    /\ \A k \in 1..5 : StepClicked(k)
    /\ Count("wait_overlay") = 2
    /\ exitStatus = 0

----------------------------------------------------------------------------
(* C13 *)

\* every call of the run succeeded, apart from overlay waits that timed out
OnlyOverlayTimeouts ==
    \A j \in DOMAIN calls :
        \/ calls[j].res \in {"ok", "True"}
        \/ calls[j].op = "wait_overlay" /\ calls[j].res = "TimeoutException"

\* C13: an overlay wait that times out raises nothing and is logged as a
\* warning; the run goes on to the next navigation step, as after an overlay
\* that disappeared; and a run in which nothing else went wrong captures no
\* diagnostics and ends with exit status 0.
C13_OverlayTimeoutNotFatal ==
    /\ \A j \in Positions("wait_overlay") :
         calls[j].res = "TimeoutException" =>
            /\ Logged("Overlay may still be visible, proceeding...")
            /\ exc.origin = "wait_overlay" => exc.kind # "TimeoutException"
            /\ handled.origin = "wait_overlay" => handled.kind # "TimeoutException"
            /\ IF j = Len(calls)
               THEN pc = "steps" /\ exc = NoExc
               ELSE \/ calls[j + 1].op = "wait_clickable"
                    \/ /\ calls[j + 1] = Call("sleep_step", 1, "ok")
                       /\ j + 2 <= Len(calls)
                       /\ calls[j + 2].op = "wait_clickable"
    /\ (Done /\ OnlyOverlayTimeouts /\ SessionCreated) =>
          /\ ~CaptureStarted
          /\ handled = NoExc
          /\ exitStatus = 0

\* a run whose two overlay waits both timed out and that still clicked all
\* five steps and ended with status 0
C13_Witness ==
    /\ Done
    /\ Cardinality({j \in Positions("wait_overlay") : calls[j].res = "TimeoutException"}) = 2
    /\ \A k \in 1..5 : StepClicked(k)
    /\ exitStatus = 0

----------------------------------------------------------------------------
(* C14 *)

\* the calls of the diagnostics capture
CaptureOps == {"makedirs", "save_screenshot", "open", "page_source"}

\* C14: the pause for manual inspection is taken at most once, only with a
\* configured duration above zero and for that duration, only after the
\* diagnostics capture is over and before the session is closed; a run that
\* failed with a live session and a positive duration has paused by the time
\* it closes the session, and the session is closed after the capture.
C14_CaptureThenPauseThenClose ==
    /\ Count("sleep_pause") <= 1
    /\ \A p \in Positions("sleep_pause") :
         /\ ParsePause(env.DEBUG_PAUSE_SECONDS).value > 0
         /\ calls[p].k = ParsePause(env.DEBUG_PAUSE_SECONDS).value
         /\ FailureWithSession
         /\ \E c \in 1..(p - 1) : calls[c].op = "makedirs"
         /\ \A c \in DOMAIN calls : calls[c].op \in CaptureOps => c < p
         /\ \A q \in Positions("quit") : p < q
    /\ \A q \in Positions("quit") :
         /\ \A c \in DOMAIN calls : calls[c].op \in CaptureOps => c < q
         /\ (FailureWithSession /\ ParsePause(env.DEBUG_PAUSE_SECONDS).value > 0)
               => Count("sleep_pause") = 1
         /\ FailureWithSession => Count("makedirs") = 1

\* a failed run that captured both files, paused three seconds and closed
\* the session
C14_Witness ==
    /\ Done
    /\ FailureWithSession
    /\ CaptureSucceeded
    /\ \E p \in Positions("sleep_pause") : calls[p].k = 3
    /\ Count("quit") = 1

----------------------------------------------------------------------------
(* C15 *)

\* the operations of the login and navigation phases
OnceOps == {"get", "wait_visible", "send_keys", "click_login", "wait_invisible",
            "wait_clickable", "execute_script", "click"}

\* C15: in any run the admin page is loaded at most once, the password is
\* entered and the login submitted at most once, each wait of the login
\* phase is made at most once, and each of the five navigation steps is
\* attempted at most once; only the session creation is repeated.
C15_NoRetryAfterConnection ==
    LET made == {j \in DOMAIN calls : calls[j].op \in OnceOps}
    IN  /\ \A j \in made :
             IF calls[j].op \in {"wait_clickable", "execute_script", "click"}
             THEN calls[j].k \in 1..5
             ELSE calls[j].k = 0
        \* no operation is called twice for the same step (step 0: the login)
        /\ Cardinality({<< calls[j].op, calls[j].k >> : j \in made}) = Cardinality(made)

\* a run that connected at the third attempt, timed out in the login wait
\* and ended without a second page load or login
C15_Witness ==
    /\ Done
    /\ Count("Remote") = 3
    /\ Answered("wait_invisible", "TimeoutException")
    /\ Count("get") = 1
    /\ Count("click_login") = 1

----------------------------------------------------------------------------
(* C16 *)

\* the guarded click of step k made the call op
StepCalled(op, k) == \E j \in DOMAIN calls : calls[j].op = op /\ calls[j].k = k

\* wait, scroll, settle pause and click of step k, one after the other, all
\* answered ok
StepSequence(k) ==
    \E w \in DOMAIN calls :
        /\ w + 3 <= Len(calls)
        /\ calls[w] = Call("wait_clickable", k, "ok")
        /\ calls[w + 1] = Call("execute_script", k, "ok")
        /\ calls[w + 2] = Call("sleep_settle", k, "ok")
        /\ calls[w + 3] = Call("click", k, "ok")

\* the wait of the guarded click of step k timed out
StepWaitTimedOut(k) ==
    \E j \in Positions("wait_clickable") :
        calls[j].k = k /\ calls[j].res = "TimeoutException"

\* C16: a guarded click whose wait for the element times out makes neither
\* the scroll call nor the click call, logs the error and returns False to
\* the loop, so the exception that follows is the RuntimeError of line 114
\* and never the TimeoutException itself; a guarded click that reports
\* success has made the wait, the scroll and the click, in that order, and
\* all three succeeded.
C16_GuardedClick ==
    LET timedOut == {j \in Positions("wait_clickable") : calls[j].res = "TimeoutException"}
        reported == {j \in DOMAIN logs : logs[j].msg = "Successfully clicked"}
    IN  /\ \A j \in timedOut :
             LET k == calls[j].k
             IN  /\ k \in 1..5
                 /\ ~StepCalled("execute_script", k)
                 /\ ~StepCalled("click", k)
                 /\ LoggedText("Error finding or clicking", Descriptions[k])
                 /\ ~LoggedText("Successfully clicked", Descriptions[k])
                 /\ exc.kind # "TimeoutException"
                 /\ handled.kind \in {"none", "RuntimeError"}
                 /\ pc = "except" => exc.kind = "RuntimeError"
        /\ \A j \in reported :
             \E k \in 1..5 : logs[j].text = Descriptions[k] /\ StepSequence(k)

\* a run that clicked the first step and timed out waiting for the second
C16_Witness ==
    /\ Done
    /\ LoggedText("Successfully clicked", "Advanced navbar item")
    /\ StepWaitTimedOut(2)
    /\ handled.kind = "RuntimeError"
    /\ handled.msg = "System settings menu"

----------------------------------------------------------------------------
(* C17 *)

\* the operations made on the session
SessionOps == {"get", "wait_visible", "clear", "send_keys", "find_login",
               "click_login", "wait_invisible", "wait_overlay", "wait_clickable",
               "execute_script", "click", "save_screenshot", "page_source"}

\* C17: every operation on the session (page load, element wait, send keys,
\* click, script execution, screenshot, page-source read) comes after the
\* successful session creation and before the session-close call; the close
\* call itself comes after the creation and is the last call of the run.
C17_SessionUsedWhileOpen ==
    LET created == {j \in Positions("Remote") : calls[j].res = "ok"}
        closed  == Positions("quit")
        used    == {j \in DOMAIN calls : calls[j].op \in SessionOps}
    IN  /\ \A j \in used :
             /\ \E c \in created : c < j
             /\ \A q \in closed : j < q
             /\ driver = "WebDriver"
        /\ \A q \in closed :
             /\ \E c \in created : c < q
             /\ q = Len(calls)

\* a run that used the session up to the page-source read of the capture
\* and then closed it
C17_Witness ==
    /\ Done
    /\ Answered("page_source", "ok")
    /\ Answered("click", "ok")
    /\ Count("quit") = 1
    /\ Count("Remote") = 2

----------------------------------------------------------------------------
(* C19 *)

\* a session-creation attempt failed with an error that is no WebDriverException
CreationOtherError == Answered("Remote", "OtherException")

\* C19: a session-creation attempt that fails with an error outside the
\* class caught at line 64 is the last attempt of the run: nothing is
\* retried, no other call follows (no diagnostics capture, no session-close
\* call), and the run ends with exit status 1, not 2.
C19_OtherCreationErrorNotRetried ==
    CreationOtherError =>
        /\ calls[Len(calls)] = Call("Remote", Len(calls) \div 2 + 1, "OtherException")
        /\ \A j \in 1..(Len(calls) - 1) :
             \/ calls[j] = Call("Remote", (j + 1) \div 2, "WebDriverException")
             \/ calls[j] = Call("sleep_retry", 2, "ok")
        /\ ~SessionCreated
        /\ ~CaptureStarted
        /\ files = {}
        /\ Count("quit") = 0
        /\ pc \in {"except", "finally", "done"}
        /\ Done => exitStatus = 1

\* a run whose third attempt failed with such an error and that has ended
C19_Witness ==
    /\ Done
    /\ CreationOtherError
    /\ Count("Remote") = 3
    /\ handled.kind = "OtherException"
    /\ exitStatus = 1

----------------------------------------------------------------------------
(* C20 *)

\* a call of the guarded click of step k failed with an error that line 56
\* does not catch
StepOtherError(k) ==
    \E j \in DOMAIN calls :
        /\ calls[j].op \in {"wait_clickable", "execute_script", "click"}
        /\ calls[j].k = k
        /\ calls[j].res = "WebDriverException"

\* C20: when a call of the guarded click of step k fails with an error other
\* than wait-timeout or invalid-selector, the guarded click logs no error
\* and returns nothing: the error itself, not the RuntimeError of line 114,
\* reaches the top-level handler; no later step is attempted, the
\* diagnostics capture is started once, the session is closed once and the
\* run ends with exit status 1.
C20_ClickErrorPropagates ==
    \A k \in {calls[j].k : j \in Positions("wait_clickable")} :
        StepOtherError(k) =>
            /\ k \in 1..5
            /\ ~LoggedText("Error finding or clicking", Descriptions[k])
            /\ ~LoggedText("Successfully clicked", Descriptions[k])
            /\ pc \notin {"steps", "overlay_step"}
            /\ pc = "except" => exc = Exc("WebDriverException", "wait_and_click")
            /\ pc # "except" => handled = Exc("WebDriverException", "wait_and_click")
            /\ \A m \in 1..5 : m > k => ~Attempted(m)
            /\ Done =>
                  /\ Cardinality({j \in DOMAIN logs : logs[j].msg = "Saving debug artifacts"}) = 1
                  /\ Count("quit") = 1
                  /\ exitStatus = 1

\* a run whose third step was found and scrolled to, but whose click was
\* rejected, and that has ended
C20_Witness ==
    /\ Done
    /\ \E j \in DOMAIN calls : calls[j] = Call("click", 3, "WebDriverException")
    /\ handled.kind = "WebDriverException"
    /\ ~Attempted(4)
    /\ exitStatus = 1

----------------------------------------------------------------------------
(* C18 *)

\* the process has ended with one of the three statuses
Exited == Done /\ exitStatus \in {0, 1, 2}

\* C18: every run ends: whatever the outside answers to each call, the run
\* makes at most ten connection attempts and at most 58 calls in all, and it
\* eventually reaches the process exit with status 0, 1 or 2.
C18_EveryRunTerminates ==
    /\ [](Count("Remote") <= 10 /\ Len(calls) <= 58)
    /\ <>Exited

\* the longest run has ended: nine failed connections, a session, a login,
\* four clicks, a fifth click refused, a full capture, a pause and the close
C18_Witness ==
    /\ Exited
    /\ Count("Remote") = 10
    /\ Len(calls) = 58
    /\ exitStatus = 1

====
